---- MODULE Spec2Model ----
(***************************************************************************)
(* TimerController (src/timer_controller.py): the study / rest session     *)
(* timer of studytime.  The controller's fields are the variables; every   *)
(* public method and the QTimer timeout handler _on_tick is an operator on *)
(* a record of those fields and an action that applies it.  Qt signals are  *)
(* recorded in `emitted`, the sequence of signals the last call emitted.   *)
(***************************************************************************)
EXTENDS Integers, Sequences, FiniteSets

VARIABLES
    state,                    \* self.state : TimerState
    last_active_state,        \* self._last_active_state : TimerState | None
    timer_active,             \* self._timer.isActive()
    time_config,              \* self.time_config : TimeConfig
    study_elapsed,            \* self.study_elapsed
    rest_elapsed,             \* self.rest_elapsed
    next_micro_break_target,  \* self._next_micro_break_target (0: none)
    micro_break_count,        \* self._micro_break_count
    wrapup_triggered,         \* self._wrapup_triggered
    emitted,                  \* signals emitted by the last call, in order
    op,                       \* the last call made on the controller
    session_ends,             \* sessionEnd signals since the last start_study()
    wrapup_hints,             \* wrapupHint signals since the last start_study()
    micro_break_hints,        \* microBreakHint signals since the last
                              \* start_study()
    config_replaced,          \* time_config was replaced outside Idle since
                              \* the last start_study()
    last_hint_at,             \* study_elapsed at the last microBreakHint
                              \* emitted under well-formed interval bounds
                              \* since the last start_study(), 0 if none
    current_session_start,    \* MainWindow.current_session_start: 0 for None,
                              \* or the number of the session (datetime.now()
                              \* of its start_new_session())
    sessions,                 \* rows record_session() has inserted
    dialogs,                  \* the modal dialogs that are open, the last
                              \* opened last: only that one can be answered
    sessions_started,         \* calls of start_new_session() so far
    abandoned                 \* the sessions in progress when the user
                              \* confirmed a stop or a restart

vars == <<state, last_active_state, timer_active, time_config, study_elapsed,
          rest_elapsed, next_micro_break_target, micro_break_count,
          wrapup_triggered, emitted, op, session_ends, wrapup_hints,
          micro_break_hints, config_replaced, last_hint_at,
          current_session_start,
          sessions, dialogs, sessions_started, abandoned>>

\* the fields of MainWindow and what is observed of it
window_vars ==
    <<current_session_start, sessions, dialogs, sessions_started, abandoned>>

----------------------------------------------------------------------------
(* Bounds of the model *)

\* start_new_session() is not called more often than this
MaxSessions == 2
\* in the runs of one study session, Tick is not taken past the session
\* length plus this many seconds (the ticks pause()/resume() obtain after
\* sessionEnd)
MaxOvertime == 2
\* Tick is not taken past this value of study_elapsed: two minutes of study
\* and the ticks that pause()/resume() obtain after the session end
MaxStudyElapsed == 122
\* Tick is not taken past this value of rest_elapsed: one minute of rest,
\* restEnd, and the ticks that pause()/resume() obtain after restEnd
MaxRestElapsed == 62
\* a rest is run up to MaxRestElapsed only when it was begun with
\* study_elapsed at most this value (the rest branch of _on_tick never reads
\* study_elapsed) ...
MaxStudyBeforeRest == 2
\* ... and a rest begun later in a session is run this many ticks
MaxRestLate == 3

----------------------------------------------------------------------------
(* Program constants and types *)

\* minutes to seconds: the factor in `time_config.<field> * 60`
SecPerMin == 60

\* class TimerState(Enum)
TimerState == {"IDLE", "STUDYING", "RESTING", "PAUSED"}

\* the value None of _last_active_state
None == "NONE"

\* dataclass TimeConfig; micro_break_duration is never read by the controller
TimeConfig(s, w, r, lo, hi) ==
    [study_duration |-> s, wrapup_time |-> w, rest_duration |-> r,
     micro_break_interval_min |-> lo, micro_break_interval_max |-> hi]

----------------------------------------------------------------------------
(* Signals *)

Sig(name, args) == [sig |-> name, args |-> args]

Emit(c, name, args) == [c EXCEPT !.emitted = Append(@, Sig(name, args))]

\* the number of signals `name` in a sequence of emitted signals
Count(evs, name) == Cardinality({i \in DOMAIN evs : evs[i].sig = name})

Emits(evs, name) == \E i \in DOMAIN evs : evs[i].sig = name

----------------------------------------------------------------------------
(* The controller as a record, and its methods *)

\* the controller's fields at the start of a call
Ctl ==
    [state |-> state,
     last_active_state |-> last_active_state,
     timer_active |-> timer_active,
     time_config |-> time_config,
     study_elapsed |-> study_elapsed,
     rest_elapsed |-> rest_elapsed,
     next_micro_break_target |-> next_micro_break_target,
     micro_break_count |-> micro_break_count,
     wrapup_triggered |-> wrapup_triggered,
     emitted |-> <<>>]

\* the values random.randint(interval_min, interval_max) can return under
\* configuration cfg; {0} stands for "no draw" when the method returns first
RandomDelays(cfg) ==
    LET interval_min == cfg.micro_break_interval_min * SecPerMin
        interval_max == cfg.micro_break_interval_max * SecPerMin
    IN  IF interval_max <= 0 \/ interval_max < interval_min
        THEN {0}
        ELSE interval_min .. interval_max

\* mutant: the comparison with the wrap-up time dropped
recalculate_micro_break_target_no_wrapup_test(c, delta) ==
    LET interval_min == c.time_config.micro_break_interval_min * SecPerMin
        interval_max == c.time_config.micro_break_interval_max * SecPerMin
    IN  IF interval_max <= 0 \/ interval_max < interval_min
        THEN [c EXCEPT !.next_micro_break_target = 0]
        ELSE [c EXCEPT !.next_micro_break_target = c.study_elapsed + delta]

\* mutant: the delay counted from the session start, not from study_elapsed
recalculate_micro_break_target_from_zero(c, delta) ==
    LET interval_min == c.time_config.micro_break_interval_min * SecPerMin
        interval_max == c.time_config.micro_break_interval_max * SecPerMin
    IN  IF interval_max <= 0 \/ interval_max < interval_min
        THEN [c EXCEPT !.next_micro_break_target = 0]
        ELSE IF delta >= c.time_config.wrapup_time * SecPerMin
             THEN [c EXCEPT !.next_micro_break_target = 0]
             ELSE [c EXCEPT !.next_micro_break_target = delta]

\* _recalculate_micro_break_target, delta being the value randint returns
recalculate_micro_break_target(c, delta) ==
    LET interval_min == c.time_config.micro_break_interval_min * SecPerMin
        interval_max == c.time_config.micro_break_interval_max * SecPerMin
        base == c.study_elapsed
        target == base + delta
    IN  IF interval_max <= 0 \/ interval_max < interval_min
        THEN [c EXCEPT !.next_micro_break_target = 0]
        ELSE IF target >= c.time_config.wrapup_time * SecPerMin
             THEN [c EXCEPT !.next_micro_break_target = 0]
             ELSE [c EXCEPT !.next_micro_break_target = target]

\* mutant: micro_break_count survives the reset
reset_counters_keeping_micro_break_count(c, delta) ==
    recalculate_micro_break_target(
        [c EXCEPT !.study_elapsed = 0,
                  !.rest_elapsed = 0,
                  !.wrapup_triggered = FALSE],
        delta)

reset_counters(c, delta) ==
    recalculate_micro_break_target(
        [c EXCEPT !.study_elapsed = 0,
                  !.rest_elapsed = 0,
                  !.micro_break_count = 0,
                  !.wrapup_triggered = FALSE],
        delta)

\* mutant: the Idle test dropped
update_time_config_always_resets(c, new_config, delta) ==
    reset_counters([c EXCEPT !.time_config = new_config], delta)

\* mutant: the configuration replaced, the counters never reset
update_time_config_without_reset(c, new_config, delta) ==
    [c EXCEPT !.time_config = new_config]

update_time_config(c, new_config, delta) ==
    LET c1 == [c EXCEPT !.time_config = new_config]
    IN  IF c1.state = "IDLE" THEN reset_counters(c1, delta) ELSE c1

start_study(c, delta) ==
    LET c1 == reset_counters(c, delta)
        c2 == [c1 EXCEPT !.state = "STUDYING"]
        c3 == Emit(c2, "stateChanged", <<c2.state>>)
    IN  [c3 EXCEPT !.timer_active = TRUE]

\* mutant: the QTimer never started
start_rest_without_timer(c) ==
    LET c1 == [c EXCEPT !.rest_elapsed = 0, !.state = "RESTING"]
    IN  Emit(c1, "stateChanged", <<c1.state>>)

\* mutant: a rest in progress is not started again
start_rest_unless_resting(c) ==
    IF c.state = "RESTING" THEN c
    ELSE LET c1 == [c EXCEPT !.rest_elapsed = 0, !.state = "RESTING"]
             c2 == Emit(c1, "stateChanged", <<c1.state>>)
         IN  IF ~c2.timer_active THEN [c2 EXCEPT !.timer_active = TRUE] ELSE c2

\* mutant: the rest starts with study_elapsed cleared
start_rest_clearing_study(c) ==
    LET c1 == [c EXCEPT !.rest_elapsed = 0, !.study_elapsed = 0,
                        !.state = "RESTING"]
        c2 == Emit(c1, "stateChanged", <<c1.state>>)
    IN  IF ~c2.timer_active THEN [c2 EXCEPT !.timer_active = TRUE] ELSE c2

start_rest(c) ==
    LET c1 == [c EXCEPT !.rest_elapsed = 0, !.state = "RESTING"]
        c2 == Emit(c1, "stateChanged", <<c1.state>>)
    IN  IF ~c2.timer_active THEN [c2 EXCEPT !.timer_active = TRUE] ELSE c2

\* mutant: the test of the current state dropped
pause_unguarded(c) ==
    LET c1 == [c EXCEPT !.last_active_state = c.state, !.state = "PAUSED"]
        c2 == Emit(c1, "stateChanged", <<c1.state>>)
    IN  [c2 EXCEPT !.timer_active = FALSE]

pause(c) ==
    IF c.state \in {"STUDYING", "RESTING"}
    THEN LET c1 == [c EXCEPT !.last_active_state = c.state, !.state = "PAUSED"]
             c2 == Emit(c1, "stateChanged", <<c1.state>>)
         IN  [c2 EXCEPT !.timer_active = FALSE]
    ELSE c

\* mutant: the timer is not started again
resume_without_timer(c) ==
    IF c.state = "PAUSED" /\ c.last_active_state # None
    THEN LET c1 == [c EXCEPT !.state = c.last_active_state]
         IN  Emit(c1, "stateChanged", <<c1.state>>)
    ELSE c

\* mutant: the test of the current state dropped
resume_unguarded(c) ==
    IF c.last_active_state # None
    THEN LET c1 == [c EXCEPT !.state = c.last_active_state]
             c2 == Emit(c1, "stateChanged", <<c1.state>>)
         IN  [c2 EXCEPT !.timer_active = TRUE]
    ELSE c

\* mutant: resume() always goes back to Studying
resume_to_studying(c) ==
    IF c.state = "PAUSED" /\ c.last_active_state # None
    THEN LET c1 == [c EXCEPT !.state = "STUDYING"]
             c2 == Emit(c1, "stateChanged", <<c1.state>>)
         IN  [c2 EXCEPT !.timer_active = TRUE]
    ELSE c

resume(c) ==
    IF c.state = "PAUSED" /\ c.last_active_state # None
    THEN LET c1 == [c EXCEPT !.state = c.last_active_state]
             c2 == Emit(c1, "stateChanged", <<c1.state>>)
         IN  [c2 EXCEPT !.timer_active = TRUE]
    ELSE c

\* mutant: stop() also clears the elapsed counters
stop_clearing_counters(c) ==
    LET c1 == [c EXCEPT !.timer_active = FALSE, !.state = "IDLE",
                        !.study_elapsed = 0, !.rest_elapsed = 0]
    IN  Emit(c1, "stateChanged", <<c1.state>>)

\* mutant: the QTimer left as it is
stop_without_timer_stop(c) ==
    LET c1 == [c EXCEPT !.state = "IDLE"]
    IN  Emit(c1, "stateChanged", <<c1.state>>)

\* mutant: stop() reports the session as completed
stop_emitting_session_end(c) ==
    LET c1 == [c EXCEPT !.timer_active = FALSE, !.state = "IDLE"]
    IN  Emit(Emit(c1, "stateChanged", <<c1.state>>), "sessionEnd", <<>>)

\* mutant: stateChanged is emitted only when the state does change
stop_quiet_when_idle(c) ==
    LET c1 == [c EXCEPT !.timer_active = FALSE, !.state = "IDLE"]
    IN  IF c.state = "IDLE" THEN c1
        ELSE Emit(c1, "stateChanged", <<c1.state>>)

stop(c) ==
    LET c1 == [c EXCEPT !.timer_active = FALSE, !.state = "IDLE"]
    IN  Emit(c1, "stateChanged", <<c1.state>>)

\* mutant: the session end is tested before the wrap-up
on_tick_studying_end_first(c, delta) ==
    LET c1 == [c EXCEPT !.study_elapsed = @ + 1]
        total == c1.time_config.study_duration * SecPerMin
        c2 == Emit(c1, "studyProgress", <<c1.study_elapsed, total>>)
        c3 == IF c2.next_micro_break_target # 0
                 /\ c2.study_elapsed >= c2.next_micro_break_target
              THEN LET m1 == [c2 EXCEPT !.micro_break_count = @ + 1]
                       m2 == Emit(m1, "microBreakHint", <<m1.micro_break_count>>)
                   IN  recalculate_micro_break_target(m2, delta)
              ELSE c2
        c4 == IF c3.study_elapsed >= total
              THEN Emit([c3 EXCEPT !.timer_active = FALSE], "sessionEnd", <<>>)
              ELSE c3
    IN  IF ~c4.wrapup_triggered
           /\ c4.study_elapsed >= c4.time_config.wrapup_time * SecPerMin
        THEN Emit([c4 EXCEPT !.wrapup_triggered = TRUE], "wrapupHint", <<>>)
        ELSE c4

\* mutant: a micro-break hint stops the QTimer
on_tick_studying_hint_pauses(c, delta) ==
    LET c1 == [c EXCEPT !.study_elapsed = @ + 1]
        total == c1.time_config.study_duration * SecPerMin
        c2 == Emit(c1, "studyProgress", <<c1.study_elapsed, total>>)
        c3 == IF c2.next_micro_break_target # 0
                 /\ c2.study_elapsed >= c2.next_micro_break_target
              THEN LET m1 == [c2 EXCEPT !.micro_break_count = @ + 1,
                                        !.timer_active = FALSE]
                       m2 == Emit(m1, "microBreakHint", <<m1.micro_break_count>>)
                   IN  recalculate_micro_break_target(m2, delta)
              ELSE c2
        c4 == IF ~c3.wrapup_triggered
                 /\ c3.study_elapsed >= c3.time_config.wrapup_time * SecPerMin
              THEN Emit([c3 EXCEPT !.wrapup_triggered = TRUE], "wrapupHint", <<>>)
              ELSE c3
    IN  IF c4.study_elapsed >= total
        THEN Emit([c4 EXCEPT !.timer_active = FALSE], "sessionEnd", <<>>)
        ELSE c4

\* mutant: the session ends one tick after the study total is reached
on_tick_studying_end_late(c, delta) ==
    LET c1 == [c EXCEPT !.study_elapsed = @ + 1]
        total == c1.time_config.study_duration * SecPerMin
        c2 == Emit(c1, "studyProgress", <<c1.study_elapsed, total>>)
        c3 == IF c2.next_micro_break_target # 0
                 /\ c2.study_elapsed >= c2.next_micro_break_target
              THEN LET m1 == [c2 EXCEPT !.micro_break_count = @ + 1]
                       m2 == Emit(m1, "microBreakHint", <<m1.micro_break_count>>)
                   IN  recalculate_micro_break_target(m2, delta)
              ELSE c2
        c4 == IF ~c3.wrapup_triggered
                 /\ c3.study_elapsed >= c3.time_config.wrapup_time * SecPerMin
              THEN Emit([c3 EXCEPT !.wrapup_triggered = TRUE], "wrapupHint", <<>>)
              ELSE c3
    IN  IF c4.study_elapsed > total
        THEN Emit([c4 EXCEPT !.timer_active = FALSE], "sessionEnd", <<>>)
        ELSE c4

\* _on_tick, the STUDYING branch
on_tick_studying(c, delta) ==
    LET c1 == [c EXCEPT !.study_elapsed = @ + 1]
        total == c1.time_config.study_duration * SecPerMin
        c2 == Emit(c1, "studyProgress", <<c1.study_elapsed, total>>)
        c3 == IF c2.next_micro_break_target # 0
                 /\ c2.study_elapsed >= c2.next_micro_break_target
              THEN LET m1 == [c2 EXCEPT !.micro_break_count = @ + 1]
                       m2 == Emit(m1, "microBreakHint", <<m1.micro_break_count>>)
                   IN  recalculate_micro_break_target(m2, delta)
              ELSE c2
        c4 == IF ~c3.wrapup_triggered
                 /\ c3.study_elapsed >= c3.time_config.wrapup_time * SecPerMin
              THEN Emit([c3 EXCEPT !.wrapup_triggered = TRUE], "wrapupHint", <<>>)
              ELSE c3
    IN  IF c4.study_elapsed >= total
        THEN Emit([c4 EXCEPT !.timer_active = FALSE], "sessionEnd", <<>>)
        ELSE c4

\* mutant: the end of the rest puts the controller in Idle
on_tick_resting_to_idle(c) ==
    LET c1 == [c EXCEPT !.rest_elapsed = @ + 1]
        total == c1.time_config.rest_duration * SecPerMin
        c2 == Emit(c1, "restProgress", <<c1.rest_elapsed, total>>)
    IN  IF c2.rest_elapsed >= total
        THEN Emit([c2 EXCEPT !.timer_active = FALSE, !.state = "IDLE"],
                  "restEnd", <<>>)
        ELSE c2

\* _on_tick, the RESTING branch
on_tick_resting(c) ==
    LET c1 == [c EXCEPT !.rest_elapsed = @ + 1]
        total == c1.time_config.rest_duration * SecPerMin
        c2 == Emit(c1, "restProgress", <<c1.rest_elapsed, total>>)
    IN  IF c2.rest_elapsed >= total
        THEN Emit([c2 EXCEPT !.timer_active = FALSE], "restEnd", <<>>)
        ELSE c2

\* mutant: every state other than Resting is ticked as Studying
on_tick_unless_resting(c, delta) ==
    IF c.state = "RESTING" THEN on_tick_resting(c)
    ELSE on_tick_studying(c, delta)

on_tick(c, delta) ==
    IF c.state = "STUDYING" THEN on_tick_studying(c, delta)
    ELSE IF c.state = "RESTING" THEN on_tick_resting(c)
    ELSE c

----------------------------------------------------------------------------
(* Configurations *)

\* the configurations update_time_config() installs while a session runs
Configs ==
    { TimeConfig(2, 2, 1, 1, 1),    \* one micro-break, at 60 s
      TimeConfig(2, 1, 1, 1, 1),    \* wrap-up before the session end
      TimeConfig(2, 2, 1, 1, 0) }   \* interval_max < interval_min

\* the configurations of the sessions whose configuration is not replaced
\* the configurations of the application runs
AppConfigs == {TimeConfig(1, 1, 1, 1, 1), TimeConfig(2, 2, 1, 1, 1)}

FixedConfigs ==
    Configs \cup
    { TimeConfig(1, 1, 1, 1, 1),    \* wrap-up and session end on the same tick
      TimeConfig(1, 2, 1, 1, 1) }   \* wrap-up later than the session end

\* the malformed micro-break configurations: interval_max < interval_min,
\* interval_min <= 0, interval_max <= 0
Malformed(cfg) ==
    \/ cfg.micro_break_interval_max < cfg.micro_break_interval_min
    \/ cfg.micro_break_interval_min <= 0
    \/ cfg.micro_break_interval_max <= 0

----------------------------------------------------------------------------
(* Actions *)

\* the state after a call `name` that leaves the controller as record c
Apply(c, name) ==
    /\ state' = c.state
    /\ last_active_state' = c.last_active_state
    /\ timer_active' = c.timer_active
    /\ time_config' = c.time_config
    /\ study_elapsed' = c.study_elapsed
    /\ rest_elapsed' = c.rest_elapsed
    /\ next_micro_break_target' = c.next_micro_break_target
    /\ micro_break_count' = c.micro_break_count
    /\ wrapup_triggered' = c.wrapup_triggered
    /\ emitted' = c.emitted
    /\ op' = name
    /\ session_ends' = IF name = "start_study" THEN 0
                       ELSE session_ends + Count(c.emitted, "sessionEnd")
    /\ wrapup_hints' = IF name = "start_study" THEN 0
                       ELSE wrapup_hints + Count(c.emitted, "wrapupHint")
    /\ micro_break_hints' =
           IF name = "start_study" THEN 0
           ELSE micro_break_hints + Count(c.emitted, "microBreakHint")
    /\ config_replaced' = IF name = "start_study" THEN FALSE
                          ELSE \/ config_replaced
                               \/ state # "IDLE" /\ c.time_config # time_config
    /\ last_hint_at' = IF name = "start_study" THEN 0
                       ELSE IF /\ Emits(c.emitted, "microBreakHint")
                               /\ ~Malformed(c.time_config)
                            THEN c.study_elapsed
                            ELSE last_hint_at

\* a call made on the controller alone, no MainWindow being connected
Call(c, name) == Apply(c, name) /\ UNCHANGED window_vars

\* TimerController.__init__ with configuration cfg, randint returning delta
InitWith(cfg, delta) ==
    LET c == recalculate_micro_break_target(
                 [state |-> "IDLE", last_active_state |-> None,
                  timer_active |-> FALSE, time_config |-> cfg,
                  study_elapsed |-> 0, rest_elapsed |-> 0,
                  next_micro_break_target |-> 0, micro_break_count |-> 0,
                  wrapup_triggered |-> FALSE, emitted |-> <<>>],
                 delta)
    IN  /\ state = c.state
        /\ last_active_state = c.last_active_state
        /\ timer_active = c.timer_active
        /\ time_config = c.time_config
        /\ study_elapsed = c.study_elapsed
        /\ rest_elapsed = c.rest_elapsed
        /\ next_micro_break_target = c.next_micro_break_target
        /\ micro_break_count = c.micro_break_count
        /\ wrapup_triggered = c.wrapup_triggered
        /\ emitted = c.emitted
        /\ op = "init"
        /\ session_ends = 0
        /\ wrapup_hints = 0
        /\ micro_break_hints = 0
        /\ config_replaced = FALSE
        /\ last_hint_at = 0
        /\ current_session_start = 0
        /\ sessions = <<>>
        /\ dialogs = <<>>
        /\ sessions_started = 0
        /\ abandoned = {}

Init == \E cfg \in Configs : \E delta \in RandomDelays(cfg) : InitWith(cfg, delta)

InitFixed ==
    \E cfg \in FixedConfigs : \E delta \in RandomDelays(cfg) : InitWith(cfg, delta)

UpdateTimeConfig ==
    \E new_config \in Configs : \E delta \in RandomDelays(new_config) :
        Call(update_time_config(Ctl, new_config, delta), "update_time_config")

StartStudy ==
    \E delta \in RandomDelays(time_config) :
        Call(start_study(Ctl, delta), "start_study")

StartRest == Call(start_rest(Ctl), "start_rest")

Pause == Call(pause(Ctl), "pause")

Resume == Call(resume(Ctl), "resume")

Stop == Call(stop(Ctl), "stop")

\* the QTimer timeout: delivered only while the timer is active
Tick ==
    /\ timer_active
    /\ state = "STUDYING" => study_elapsed < MaxStudyElapsed
    /\ state = "RESTING" =>
           rest_elapsed < (IF study_elapsed <= MaxStudyBeforeRest
                           THEN MaxRestElapsed ELSE MaxRestLate)
    /\ \E delta \in RandomDelays(time_config) :
           Call(on_tick(Ctl, delta), "tick")

Next ==
    \/ UpdateTimeConfig
    \/ StartStudy
    \/ StartRest
    \/ Pause
    \/ Resume
    \/ Stop
    \/ Tick

Spec == Init /\ [][Next]_vars

\* update_time_config() called only while no session is in progress
UpdateTimeConfigIdle ==
    /\ state = "IDLE"
    /\ \E new_config \in FixedConfigs : \E delta \in RandomDelays(new_config) :
           Call(update_time_config(Ctl, new_config, delta), "update_time_config")

NextFixed ==
    \/ UpdateTimeConfigIdle
    \/ StartStudy
    \/ StartRest
    \/ Pause
    \/ Resume
    \/ Stop
    \/ Tick

\* the controller when the configuration of a session is never replaced
SpecFixed == InitFixed /\ [][NextFixed]_vars

\* configurations of the runs of one study session: real ranges of random
\* delays (1..2 and 2..3 minutes), a range that lies wholly at or above the
\* wrap-up threshold, the one-minute session with an interval of ten minutes
\* and the ten-minute session with a break every minute
MicroConfigs ==
    {TimeConfig(3, 3, 1, 1, 2), TimeConfig(3, 3, 1, 2, 3),
     TimeConfig(2, 1, 1, 1, 2), TimeConfig(1, 1, 1, 10, 10),
     TimeConfig(10, 10, 1, 1, 1)}

InitMicro ==
    \E cfg \in MicroConfigs : \E delta \in RandomDelays(cfg) : InitWith(cfg, delta)

\* the values randint can return in the coming tick: it is called only when
\* the micro-break is due, that is when the test of _on_tick succeeds on the
\* incremented study_elapsed
TickDelays ==
    IF /\ state = "STUDYING"
       /\ next_micro_break_target # 0
       /\ study_elapsed + 1 >= next_micro_break_target
    THEN RandomDelays(time_config)
    ELSE {0}

\* the QTimer timeout in a study session
TickStudy ==
    /\ timer_active
    /\ state = "STUDYING"
    /\ study_elapsed < time_config.study_duration * SecPerMin + MaxOvertime
    /\ \E delta \in TickDelays : Call(on_tick(Ctl, delta), "tick")

\* start_study() on an idle controller or after the session has ended
StartSession ==
    /\ state = "IDLE" \/ session_ends > 0
    /\ StartStudy

NextMicro ==
    \/ StartSession
    \/ Pause
    \/ Resume
    \/ TickStudy

\* study sessions run one after the other under a fixed configuration,
\* interleaved with pause() and resume(), every random delay being drawn
SpecMicro == InitMicro /\ [][NextMicro]_vars

\* update_time_config() with the configuration in force, on an idle
\* controller: the settings dialog accepted with the time settings unchanged
ReinstallConfigIdle ==
    /\ state = "IDLE"
    /\ \E delta \in RandomDelays(time_config) :
           Call(update_time_config(Ctl, time_config, delta),
                "update_time_config")

NextSession ==
    \/ StartSession
    \/ Pause
    \/ Resume
    \/ Stop
    \/ ReinstallConfigIdle
    \/ TickStudy

\* configurations of the sessions that are stopped and started again: one
\* micro-break, and two micro-breaks a minute apart
SessionConfigs == {TimeConfig(2, 2, 1, 1, 1), TimeConfig(3, 3, 1, 1, 1)}

InitSession ==
    \E cfg \in SessionConfigs :
        \E delta \in RandomDelays(cfg) : InitWith(cfg, delta)

\* study sessions under a fixed configuration that are paused, resumed,
\* stopped and started again, the configuration being installed anew between
\* them
SpecSession == InitSession /\ [][NextSession]_vars

\* rests of one and of two minutes
RestConfigs == {TimeConfig(2, 2, 1, 1, 1), TimeConfig(2, 2, 2, 1, 1)}

InitRest ==
    \E cfg \in RestConfigs :
        \E delta \in RandomDelays(cfg) : InitWith(cfg, delta)

\* start_rest() on the idle controller
BeginRest ==
    /\ state = "IDLE"
    /\ StartRest

\* start_rest() during a rest that is counting down
RestartRest ==
    /\ state = "RESTING"
    /\ timer_active
    /\ StartRest

\* the QTimer timeout in a rest
TickRest ==
    /\ timer_active
    /\ state = "RESTING"
    /\ rest_elapsed < time_config.rest_duration * SecPerMin + MaxOvertime
    /\ Call(on_tick(Ctl, 0), "tick")

NextRest ==
    \/ BeginRest
    \/ RestartRest
    \/ Pause
    \/ Resume
    \/ TickRest

\* a rest under a fixed configuration that is paused, resumed and started
\* again while it counts down
SpecRest == InitRest /\ [][NextRest]_vars

\* start_study() on the idle controller
BeginStudy ==
    /\ state = "IDLE"
    /\ StartStudy

\* resume() on the paused controller
ResumePaused ==
    /\ state = "PAUSED"
    /\ Resume

NextLive ==
    \/ BeginStudy
    \/ BeginRest
    \/ Pause
    \/ Resume
    \/ TickStudy
    \/ TickRest

\* one study session or one rest under a fixed configuration, paused and
\* resumed at will and neither stopped nor started again.  The QTimer fires
\* when it has been active for its interval: a timer that stays active
\* delivers a tick.
SpecLive ==
    /\ InitRest
    /\ [][NextLive]_vars
    /\ WF_vars(TickStudy)
    /\ WF_vars(TickRest)

MalformedConfigs ==
    {TimeConfig(1, 1, 1, 1, 0), TimeConfig(1, 1, 1, 0, 0),
     TimeConfig(1, 1, 1, 2, 1), TimeConfig(1, 1, 1, 0, 1)}

InitMalformed ==
    \E cfg \in MalformedConfigs :
        \E delta \in RandomDelays(cfg) : InitWith(cfg, delta)

\* study sessions under a malformed micro-break configuration
SpecMalformed == InitMalformed /\ [][NextMicro]_vars

----------------------------------------------------------------------------
(* MainWindow (src/main_window.py) driving the controller *)

\* current_session_start when it is None; a session is numbered from 1
NoSession == 0

\* MainWindow as a record: its field, the sessions table, the open dialogs
Win ==
    [current_session_start |-> current_session_start,
     sessions |-> sessions,
     dialogs |-> dialogs,
     sessions_started |-> sessions_started,
     abandoned |-> abandoned]

\* the first half of start_new_session: datetime.now() is a new session number
new_session(w) ==
    [w EXCEPT !.sessions_started = @ + 1,
              !.current_session_start = w.sessions_started + 1]

\* mutant: the session recorded stays the session in progress
on_session_end_keeping_start(w, c) ==
    LET w1 == IF w.current_session_start # NoSession
              THEN [w EXCEPT
                       !.sessions =
                           Append(@, [start_time |-> w.current_session_start,
                                      study_seconds |-> c.study_elapsed])]
              ELSE w
    IN  [w1 EXCEPT !.dialogs = Append(@, "session_end")]

\* _on_session_end up to msg.exec(): the session of controller c is recorded
\* when one is in progress, and the dialog opens
on_session_end(w, c) ==
    LET w1 == IF w.current_session_start # NoSession
              THEN [w EXCEPT
                       !.sessions =
                           Append(@, [start_time |-> w.current_session_start,
                                      study_seconds |-> c.study_elapsed]),
                       !.current_session_start = NoSession]
              ELSE w
    IN  [w1 EXCEPT !.dialogs = Append(@, "session_end")]

\* _on_rest_end up to msg.exec()
on_rest_end(w) == [w EXCEPT !.dialogs = Append(@, "rest_end")]

\* the slots connected to sessionEnd and restEnd, run for the signals that
\* the call which produced c has emitted
deliver(w, c) ==
    LET w1 == IF Emits(c.emitted, "sessionEnd") THEN on_session_end(w, c) ELSE w
    IN  IF Emits(c.emitted, "restEnd") THEN on_rest_end(w1) ELSE w1

\* the user's confirmation executes: the session in progress is given up
give_up(w) ==
    IF w.current_session_start # NoSession
    THEN [w EXCEPT !.abandoned = @ \cup {w.current_session_start}]
    ELSE w

\* the last dialog opened is closed
close(w) == [w EXCEPT !.dialogs = SubSeq(@, 1, Len(@) - 1)]

\* a step of the composed system: controller c after the call `name`, window w
Drive(c, name, w) ==
    /\ Apply(c, name)
    /\ current_session_start' = w.current_session_start
    /\ sessions' = w.sessions
    /\ dialogs' = w.dialogs
    /\ sessions_started' = w.sessions_started
    /\ abandoned' = w.abandoned

\* a step of the window that makes no call on the controller
WindowOnly(w) ==
    /\ UNCHANGED <<state, last_active_state, timer_active, time_config,
                   study_elapsed, rest_elapsed, next_micro_break_target,
                   micro_break_count, wrapup_triggered, emitted, op,
                   session_ends, wrapup_hints, micro_break_hints,
                   config_replaced, last_hint_at>>
    /\ current_session_start' = w.current_session_start
    /\ sessions' = w.sessions
    /\ dialogs' = w.dialogs
    /\ sessions_started' = w.sessions_started
    /\ abandoned' = w.abandoned

\* start_new_session, on controller c and window w
start_new_session(c, w, delta) ==
    LET c1 == start_study(c, delta)
    IN  Drive(c1, "start_study", deliver(new_session(w), c1))

\* the dialog that can be answered, None when no dialog is open
TopDialog == IF dialogs = <<>> THEN None ELSE dialogs[Len(dialogs)]

\* context menu "start": _on_start_triggered up to the question
OnStartTriggered ==
    /\ dialogs = <<>>
    /\ sessions_started < MaxSessions
    /\ IF state = "IDLE"
       THEN \E delta \in RandomDelays(time_config) :
                start_new_session(Ctl, Win, delta)
       ELSE WindowOnly([Win EXCEPT !.dialogs = Append(@, "confirm_start")])

\* the answer to the question of _on_start_triggered
AnswerConfirmStart ==
    /\ TopDialog = "confirm_start"
    /\ \/ /\ sessions_started < MaxSessions
          /\ \E delta \in RandomDelays(time_config) :
                 LET c1 == stop(Ctl)
                     w1 == deliver(give_up(close(Win)), c1)
                 IN  start_new_session(c1, w1, delta)
       \/ WindowOnly(close(Win))

\* context menu "pause / continue": _on_pause_triggered
OnPauseTriggered ==
    /\ dialogs = <<>>
    /\ \/ /\ state \in {"STUDYING", "RESTING"}
          /\ LET c1 == pause(Ctl) IN Drive(c1, "pause", deliver(Win, c1))
       \/ /\ state = "PAUSED"
          /\ LET c1 == resume(Ctl) IN Drive(c1, "resume", deliver(Win, c1))

\* context menu "end this round": _on_stop_triggered up to the question
OnStopTriggered ==
    /\ dialogs = <<>>
    /\ state \in {"STUDYING", "RESTING", "PAUSED"}
    /\ WindowOnly([Win EXCEPT !.dialogs = Append(@, "confirm_stop")])

\* the answer to the question of _on_stop_triggered
AnswerConfirmStop ==
    /\ TopDialog = "confirm_stop"
    /\ \/ LET c1 == stop(Ctl)
              w1 == deliver(give_up(close(Win)), c1)
          IN  Drive(c1, "stop", [w1 EXCEPT !.current_session_start = NoSession])
       \/ WindowOnly(close(Win))

\* the answer to the dialog of _on_session_end
AnswerSessionEnd ==
    /\ TopDialog = "session_end"
    /\ \/ LET c1 == start_rest(Ctl)
          IN  Drive(c1, "start_rest", deliver(close(Win), c1))
       \/ LET c1 == stop(Ctl) IN Drive(c1, "stop", deliver(close(Win), c1))

\* the answer to the dialog of _on_rest_end
AnswerRestEnd ==
    /\ TopDialog = "rest_end"
    /\ \/ /\ sessions_started < MaxSessions
          /\ \E delta \in RandomDelays(time_config) :
                 start_new_session(Ctl, close(Win), delta)
       \/ LET c1 == stop(Ctl) IN Drive(c1, "stop", deliver(close(Win), c1))

\* open_settings, the dialog accepted
OpenSettings ==
    /\ dialogs = <<>>
    /\ \E new_config \in AppConfigs : \E delta \in RandomDelays(new_config) :
           LET c1 == update_time_config(Ctl, new_config, delta)
           IN  Drive(c1, "update_time_config", deliver(Win, c1))

\* the QTimer timeout, delivered by the event loop of the application or of
\* the dialog that is open; the slots of MainWindow run inside it
WindowTick ==
    /\ timer_active
    /\ state = "STUDYING" =>
           study_elapsed < time_config.study_duration * SecPerMin + MaxOvertime
    /\ state = "RESTING" =>
           rest_elapsed < time_config.rest_duration * SecPerMin + MaxOvertime
    /\ \E delta \in TickDelays :
           LET c1 == on_tick(Ctl, delta) IN Drive(c1, "tick", deliver(Win, c1))

InitApp ==
    \E cfg \in AppConfigs : \E delta \in RandomDelays(cfg) : InitWith(cfg, delta)

NextApp ==
    \/ OnStartTriggered
    \/ AnswerConfirmStart
    \/ OnPauseTriggered
    \/ OnStopTriggered
    \/ AnswerConfirmStop
    \/ AnswerSessionEnd
    \/ AnswerRestEnd
    \/ OpenSettings
    \/ WindowTick

\* the application: the controller driven by MainWindow alone
SpecApp == InitApp /\ [][NextApp]_vars

\* open_settings, the dialog accepted with the configuration unchanged
ReopenSettings ==
    /\ dialogs = <<>>
    /\ \E delta \in RandomDelays(time_config) :
           LET c1 == update_time_config(Ctl, time_config, delta)
           IN  Drive(c1, "update_time_config", deliver(Win, c1))

NextAppFixed ==
    \/ OnStartTriggered
    \/ AnswerConfirmStart
    \/ OnPauseTriggered
    \/ OnStopTriggered
    \/ AnswerConfirmStop
    \/ AnswerSessionEnd
    \/ AnswerRestEnd
    \/ ReopenSettings
    \/ WindowTick

\* the application under a configuration that is never changed
SpecAppFixed == InitApp /\ [][NextAppFixed]_vars

----------------------------------------------------------------------------
(* Properties *)

StudyTotal == time_config.study_duration * SecPerMin
WrapupAt == time_config.wrapup_time * SecPerMin
Active == {"STUDYING", "RESTING"}

\* C1: within one study session, under every interleaving of ticks with
\* pause() and resume() and a fixed configuration, sessionEnd is emitted
\* exactly once, on the tick at which study_elapsed becomes equal to
\* study_duration*60 and on no later tick, and ticking is halted from that
\* tick on.
C1_SessionEndExactlyOnce ==
    /\ session_ends <= 1
    /\ Emits(emitted, "sessionEnd") => study_elapsed = StudyTotal
    /\ (state = "STUDYING" /\ study_elapsed >= StudyTotal) => ~timer_active

\* C2: between two consecutive start_study() calls wrapupHint is emitted at
\* most once, whatever ticks, pause(), resume(), stop(), start_rest() and
\* update_time_config() calls are interleaved.
C2_WrapupAtMostOnce == wrapup_hints <= 1

\* wrapupHint fired under wrapup_time = 1, update_time_config() then raised
\* wrapup_time to 2 and the session ticked on to 120 s without a second hint
C2_Witness ==
    /\ op = "tick"
    /\ state = "STUDYING"
    /\ wrapup_hints = 1
    /\ time_config.wrapup_time = 2
    /\ study_elapsed = WrapupAt
    /\ ~Emits(emitted, "wrapupHint")

\* C3: with a fixed configuration wrapupHint is emitted in a study session
\* if and only if study_elapsed reaches wrapup_time*60 no later than the
\* tick of sessionEnd: when wrapup_time <= study_duration exactly on the tick
\* where study_elapsed = wrapup_time*60, and when wrapup_time >
\* study_duration never, whatever pause()/resume() calls are interleaved.
C3_WrapupIffReached ==
    /\ Emits(emitted, "wrapupHint") =>
           /\ time_config.wrapup_time <= time_config.study_duration
           /\ study_elapsed = WrapupAt
    /\ ( /\ state = "STUDYING"
         /\ time_config.wrapup_time <= time_config.study_duration
         /\ study_elapsed >= WrapupAt ) => wrapup_hints = 1

C5_ResetOnlyByStart ==
    [][ /\ study_elapsed' < study_elapsed =>
            (study_elapsed' = 0 /\ op' \in {"start_study", "start_rest"})
        /\ rest_elapsed' < rest_elapsed =>
            (rest_elapsed' = 0 /\ op' \in {"start_study", "start_rest"}) ]_vars

\* C5 as amended: the counters never decrease except by a reset to 0, and
\* the only calls that reset one are start_study(), start_rest() (rest
\* counter only) and update_time_config() while the state is Idle.
C5_ResetOnlyByStartOrIdleConfig ==
    [][ /\ study_elapsed' < study_elapsed =>
            /\ study_elapsed' = 0
            /\ \/ op' = "start_study"
               \/ op' = "update_time_config" /\ state = "IDLE"
        /\ rest_elapsed' < rest_elapsed =>
            /\ rest_elapsed' = 0
            /\ \/ op' \in {"start_study", "start_rest"}
               \/ op' = "update_time_config" /\ state = "IDLE" ]_vars

\* update_time_config() in Idle has reset the counters of a session that
\* had run to its end
C5_Witness ==
    /\ op = "update_time_config"
    /\ state = "IDLE"
    /\ session_ends >= 1
    /\ study_elapsed = 0

\* the counters, the latch and the micro-break target of controller c
Counters(c) ==
    <<c.study_elapsed, c.rest_elapsed, c.micro_break_count,
      c.wrapup_triggered, c.next_micro_break_target>>

\* controller c at the start of its next call
Called(c) == [c EXCEPT !.emitted = <<>>]

\* C6: pause() followed immediately by resume(), from any reachable state in
\* Studying or Resting with the timer active, returns the controller to the
\* same state, counters, latch and micro-break target, the timer active.
C6_PauseResumeRestores ==
    (state \in Active /\ timer_active) =>
        LET c == resume(Called(pause(Ctl)))
        IN  /\ c.state = state
            /\ Counters(c) = Counters(Ctl)
            /\ c.time_config = time_config
            /\ c.timer_active

\* a rest paused after some ticks has just been resumed
C6_Witness ==
    /\ op = "resume"
    /\ Emits(emitted, "stateChanged")
    /\ state = "RESTING"
    /\ rest_elapsed > 0
    /\ timer_active

\* C7: pause() is idempotent: from every reachable state two calls in a row
\* leave the same state, recorded previous state, counters and timer
\* activity as one call; from Idle or Paused pause() changes nothing and
\* emits no stateChanged.
C7_PauseIdempotent ==
    LET once == pause(Ctl)
        twice == pause(Called(once))
    IN  /\ Called(twice) = Called(once)
        /\ twice.emitted = <<>>
        /\ state \in {"IDLE", "PAUSED"} => once = Ctl

\* pause() has just been called on a controller that was already paused
C7_Witness ==
    /\ op = "pause"
    /\ state = "PAUSED"
    /\ emitted = <<>>
    /\ last_active_state = "RESTING"

\* C8: resume() is a no-op (nothing changed, nothing emitted) whenever the
\* state is not Paused, also in Idle reached by pause() then stop(), where a
\* previous active state is still recorded.
C8_ResumeNoOpUnlessPaused == state # "PAUSED" => resume(Ctl) = Ctl

\* resume() has just been called in Idle with a previous state recorded
C8_Witness ==
    /\ op = "resume"
    /\ state = "IDLE"
    /\ last_active_state # None
    /\ emitted = <<>>

\* C9: while the state is Paused or Idle a tick changes nothing and emits
\* nothing; after pause() at study_elapsed = n, any number of ticks and then
\* resume(), the next tick produces study_elapsed = n + 1.
C9_TickWhilePausedOrIdle ==
    \A delta \in RandomDelays(time_config) :
        /\ state \in {"PAUSED", "IDLE"} => on_tick(Ctl, delta) = Ctl
        /\ state = "STUDYING" =>
               LET paused == Called(pause(Ctl))
                   ticked == on_tick(on_tick(paused, delta), delta)
                   next == on_tick(Called(resume(ticked)), delta)
               IN  /\ ticked = paused
                   /\ paused.study_elapsed = study_elapsed
                   /\ next.study_elapsed = study_elapsed + 1

\* the session has just been paused at study_elapsed = 30
C9_Witness ==
    /\ op = "pause"
    /\ state = "PAUSED"
    /\ last_active_state = "STUDYING"
    /\ study_elapsed = 30

\* C10: whenever the state is Paused the recorded previous active state is
\* Studying or Resting and is the state the controller was in when pause()
\* suspended it; resume() from Paused restores exactly that state, whatever
\* calls preceded the pause.
C10_PausedRemembersState ==
    /\ [](state = "PAUSED" => last_active_state \in Active)
    /\ [][ /\ (state # "PAUSED" /\ state' = "PAUSED") =>
                (op' = "pause" /\ state \in Active /\ last_active_state' = state)
           /\ (state = "PAUSED" /\ state' = "PAUSED") =>
                last_active_state' = last_active_state
           /\ (state = "PAUSED" /\ op' = "resume") =>
                (state' = last_active_state /\ state' \in Active) ]_vars

\* a rest begun during a study session was paused and has been resumed
C10_Witness ==
    /\ op = "resume"
    /\ state = "RESTING"
    /\ last_active_state = "RESTING"
    /\ study_elapsed > 0
    /\ rest_elapsed > 0

\* C11: stop() from any state leaves the state Idle and the timer inactive,
\* leaves study_elapsed, rest_elapsed, micro_break_count, wrapup_triggered
\* and the micro-break target as they were, and emits neither sessionEnd nor
\* restEnd.
C11_StopFrame ==
    LET c == stop(Ctl)
    IN  /\ c.state = "IDLE"
        /\ ~c.timer_active
        /\ Counters(c) = Counters(Ctl)
        /\ ~Emits(c.emitted, "sessionEnd")
        /\ ~Emits(c.emitted, "restEnd")

\* stop() has just been called in a session with every counter advanced
C11_Witness ==
    /\ op = "stop"
    /\ state = "IDLE"
    /\ ~timer_active
    /\ study_elapsed > 0
    /\ rest_elapsed > 0
    /\ micro_break_count > 0
    /\ wrapup_triggered

\* the signals that report progress, a hint or the end of a phase
ProgressSignals ==
    {"studyProgress", "restProgress", "microBreakHint", "wrapupHint",
     "sessionEnd", "restEnd"}

\* C12: after stop() no tick is processed and no progress, hint or terminal
\* event is emitted until the next start_study() or start_rest(): the
\* controller stays Idle with the timer inactive, and pause() and resume()
\* issued after stop() do not restart ticking.
C12_NoTickAfterStop ==
    /\ [](state = "IDLE" => ~timer_active)
    /\ [][/\ op' = "stop" => state' = "IDLE" /\ ~timer_active'
          /\ (state = "IDLE" /\ op' \notin {"start_study", "start_rest"}) =>
                 /\ state' = "IDLE"
                 /\ ~timer_active'
                 /\ op' # "tick"
                 /\ \A i \in DOMAIN emitted' :
                        emitted'[i].sig \notin ProgressSignals]_vars

\* a running session was stopped, and pause() then resume() were issued
C12_Witness ==
    /\ op = "resume"
    /\ state = "IDLE"
    /\ ~timer_active
    /\ last_active_state = "STUDYING"
    /\ study_elapsed > 0
    /\ study_elapsed < StudyTotal

\* configurations tried by start_study(): those of the runs, one with a real
\* range of random delays that crosses the wrap-up threshold, and one with
\* interval_min = 0
StartConfigs ==
    Configs \cup {TimeConfig(2, 2, 1, 1, 2), TimeConfig(1, 1, 1, 0, 1)}

\* C13: start_study() called from any reachable state leaves state =
\* Studying, the timer active, study_elapsed = 0, rest_elapsed = 0,
\* micro_break_count = 0, wrapup_triggered = FALSE, and a micro-break target
\* that is either the disabled sentinel 0 or a value in [interval_min*60,
\* interval_max*60] strictly below wrapup_time*60.  At construction and
\* after a terminal event the configuration in force ranges over StartConfigs
\* as well (update_time_config() outside Idle changes nothing else).
C13_StartStudyPost ==
    \A cfg \in (IF \/ op = "init"
                    \/ Emits(emitted, "sessionEnd")
                    \/ Emits(emitted, "restEnd")
                 THEN StartConfigs ELSE {}) \cup {time_config} :
        \A delta \in RandomDelays(cfg) :
            LET c == start_study([Ctl EXCEPT !.time_config = cfg], delta)
                target == c.next_micro_break_target
            IN  /\ c.state = "STUDYING"
                /\ c.timer_active
                /\ c.study_elapsed = 0
                /\ c.rest_elapsed = 0
                /\ c.micro_break_count = 0
                /\ c.wrapup_triggered = FALSE
                /\ \/ target = 0
                   \/ /\ target >= cfg.micro_break_interval_min * SecPerMin
                      /\ target <= cfg.micro_break_interval_max * SecPerMin
                      /\ target < cfg.wrapup_time * SecPerMin

\* start_study() has just been called in a session that had advanced every
\* counter, and has scheduled a micro-break
C13_Witness ==
    /\ op = "start_study"
    /\ state = "STUDYING"
    /\ next_micro_break_target = 60
    /\ last_active_state = "RESTING"
    /\ session_ends = 0

\* C14: start_rest() called from any reachable state (Idle, Paused and
\* Studying included) leaves state = Resting, rest_elapsed = 0 and the timer
\* active; no sessionEnd has to come before it.
C14_StartRestPost ==
    LET c == start_rest(Ctl)
    IN  /\ c.state = "RESTING"
        /\ c.rest_elapsed = 0
        /\ c.timer_active

\* start_rest() has just been called one second into a study session that
\* emitted no sessionEnd, after a rest had been paused in it
C14_Witness ==
    /\ op = "start_rest"
    /\ state = "RESTING"
    /\ rest_elapsed = 0
    /\ timer_active
    /\ session_ends = 0
    /\ last_active_state = "RESTING"
    /\ study_elapsed = 1

\* C15: with a fixed configuration where interval_min >= 1, the number of
\* microBreakHint signals emitted between a start_study() and the next
\* start_study() never exceeds floor(wrapup_time / interval_min), whatever
\* random delays are drawn and however pause() and resume() are interleaved.
C15_MicroBreakCountBound ==
    time_config.micro_break_interval_min >= 1 =>
        micro_break_hints <=
            time_config.wrapup_time \div time_config.micro_break_interval_min

\* a paused and resumed session with delays of 2..3 minutes has emitted as
\* many hints as the bound allows
C15_Witness ==
    /\ time_config = TimeConfig(3, 3, 1, 2, 3)
    /\ micro_break_hints = 1
    /\ micro_break_hints =
           time_config.wrapup_time \div time_config.micro_break_interval_min
    /\ op = "resume"
    /\ state = "STUDYING"

\* C16: for every malformed micro-break configuration (interval_max <
\* interval_min, interval_min <= 0 or interval_max <= 0) micro-breaks are
\* disabled for the session: after start_study() no microBreakHint is ever
\* emitted.
C16_MalformedDisablesMicroBreaks ==
    Malformed(time_config) => micro_break_hints = 0

\* the names of the signals of evs, in the order of emission
Signals(evs) == [i \in DOMAIN evs |-> evs[i].sig]

\* C17: with study = 1, wrapup = 1, micro_min = micro_max = 10 minutes,
\* start_study() followed by 60 ticks emits no microBreakHint, emits
\* wrapupHint exactly once and sessionEnd exactly once, both on tick 60 with
\* wrapupHint before sessionEnd, and neither on ticks 1..59.
C17_OneMinuteScenario ==
    (time_config = TimeConfig(1, 1, 1, 10, 10) /\ study_elapsed <= 60) =>
        /\ micro_break_hints = 0
        /\ study_elapsed < 60 => wrapup_hints = 0 /\ session_ends = 0
        /\ study_elapsed = 60 => wrapup_hints = 1 /\ session_ends = 1
        /\ (op = "tick" /\ study_elapsed < 60) =>
               Signals(emitted) = <<"studyProgress">>
        /\ (op = "tick" /\ study_elapsed = 60) =>
               Signals(emitted) = <<"studyProgress", "wrapupHint", "sessionEnd">>

\* tick 60 of the scenario, the session never having been paused
C17_Witness ==
    /\ time_config = TimeConfig(1, 1, 1, 10, 10)
    /\ op = "tick"
    /\ study_elapsed = 60
    /\ last_active_state = None
    /\ Emits(emitted, "sessionEnd")

\* C18: with study = 10, wrapup = 10, micro_min = micro_max = 1 minutes,
\* start_study() followed by 600 ticks emits microBreakHint exactly 9 times,
\* at study_elapsed = 60, 120, ..., 540 with counts 1..9, and none at 600
\* (the target 600 is not below the wrap-up threshold 600).
C18_TenMinuteScenario ==
    (time_config = TimeConfig(10, 10, 1, 1, 1) /\ study_elapsed <= 600) =>
        /\ micro_break_hints =
               IF study_elapsed >= 540 THEN 9 ELSE study_elapsed \div 60
        /\ micro_break_count = micro_break_hints
        /\ op = "tick" =>
               IF study_elapsed \in {60 * k : k \in 1..9}
               THEN /\ Count(emitted, "microBreakHint") = 1
                    /\ \E i \in DOMAIN emitted :
                           emitted[i] = Sig("microBreakHint",
                                            <<study_elapsed \div 60>>)
               ELSE ~Emits(emitted, "microBreakHint")

\* tick 600 of the scenario, the session never having been paused
C18_Witness ==
    /\ time_config = TimeConfig(10, 10, 1, 1, 1)
    /\ op = "tick"
    /\ study_elapsed = 600
    /\ micro_break_hints = 9
    /\ last_active_state = None
    /\ Emits(emitted, "sessionEnd")

\* C20: update_time_config() called while the state is Idle replaces the
\* configuration, resets study_elapsed, rest_elapsed, micro_break_count and
\* wrapup_triggered, and recomputes the micro-break target from the new
\* configuration: the target is the drawn delay of interval_min*60 ..
\* interval_max*60 seconds when that is below wrapup_time*60, and the
\* disabled sentinel 0 otherwise.  The state stays Idle and nothing is
\* emitted.  The new configuration is any of Configs and, at construction
\* and when stop() has just ended a completed session, any of StartConfigs.
C20_IdleConfigUpdateResets ==
    state = "IDLE" =>
        \A new_config \in
                Configs \cup (IF op = "init" \/ (op = "stop" /\ session_ends > 0)
                              THEN StartConfigs ELSE {}) :
            \A delta \in RandomDelays(new_config) :
                LET c == update_time_config(Ctl, new_config, delta)
                    target == c.next_micro_break_target
                    lo == new_config.micro_break_interval_min * SecPerMin
                    hi == new_config.micro_break_interval_max * SecPerMin
                    wrapup == new_config.wrapup_time * SecPerMin
                IN  /\ c.time_config = new_config
                    /\ c.study_elapsed = 0
                    /\ c.rest_elapsed = 0
                    /\ c.micro_break_count = 0
                    /\ c.wrapup_triggered = FALSE
                    /\ \/ target = 0 /\ (hi < lo \/ hi <= 0 \/ delta = 0
                                         \/ delta >= wrapup)
                       \/ /\ target = delta
                          /\ lo <= target /\ target <= hi
                          /\ target < wrapup
                    /\ c.state = "IDLE"
                    /\ c.timer_active = timer_active
                    /\ c.last_active_state = last_active_state
                    /\ c.emitted = <<>>

\* the configuration has just been replaced on an idle controller whose last
\* session had run to its end: the counters of that session are gone
C20_Witness ==
    /\ op = "update_time_config"
    /\ state = "IDLE"
    /\ session_ends = 1
    /\ wrapup_hints = 1
    /\ micro_break_hints = 1
    /\ study_elapsed = 0
    /\ micro_break_count = 0
    /\ ~wrapup_triggered

\* C19: in the system composed of TimerController and MainWindow, a session
\* that the user stops (the stop confirmed) or restarts (the start confirmed
\* while not Idle) is never passed to record_session, and record_session is
\* called only inside the handler of a sessionEnd emitted by a tick.
C19_OnlyCompletedSessionsRecorded ==
    /\ [](\A i \in DOMAIN sessions : sessions[i].start_time \notin abandoned)
    /\ [][sessions' # sessions =>
              /\ op' = "tick"
              /\ study_elapsed' = study_elapsed + 1
              /\ Emits(emitted', "sessionEnd")
              /\ Len(sessions') = Len(sessions) + 1]_vars

\* the first session was given up by the user, the second one ran to its
\* end and was recorded
C19_Witness ==
    /\ abandoned = {1}
    /\ Len(sessions) = 1
    /\ sessions[1].start_time = 2
    /\ TopDialog = "session_end"

\* configurations installed by update_time_config() in a running session:
\* those of the runs, a shorter study with a longer rest, and a longer study
ReplacementConfigs ==
    Configs \cup {TimeConfig(1, 1, 2, 1, 1), TimeConfig(3, 3, 1, 1, 1)}

\* C21: update_time_config() called while the state is Studying, Resting or
\* Paused changes only the configuration: state, timer activity,
\* study_elapsed, rest_elapsed, micro_break_count, wrapup_triggered and the
\* micro-break target already computed are unchanged, nothing is emitted, and
\* the next tick compares the elapsed time against the new study_duration,
\* rest_duration and wrapup_time.
C21_RunningConfigUpdateFrame ==
    state # "IDLE" =>
        \A new_config \in ReplacementConfigs :
            \A delta \in RandomDelays(new_config) :
                LET c == update_time_config(Ctl, new_config, delta)
                    t == on_tick(c, delta)
                    study_total == new_config.study_duration * SecPerMin
                    rest_total == new_config.rest_duration * SecPerMin
                    wrapup == new_config.wrapup_time * SecPerMin
                IN  /\ c = [Ctl EXCEPT !.time_config = new_config]
                    /\ (state = "STUDYING") =>
                           /\ t.emitted[1] =
                                  Sig("studyProgress",
                                      <<study_elapsed + 1, study_total>>)
                           /\ Emits(t.emitted, "sessionEnd") <=>
                                  study_elapsed + 1 >= study_total
                           /\ Emits(t.emitted, "wrapupHint") <=>
                                  (~wrapup_triggered
                                   /\ study_elapsed + 1 >= wrapup)
                    /\ (state = "RESTING") =>
                           /\ t.emitted[1] =
                                  Sig("restProgress",
                                      <<rest_elapsed + 1, rest_total>>)
                           /\ Emits(t.emitted, "restEnd") <=>
                                  rest_elapsed + 1 >= rest_total

\* the configuration has just been replaced in a running study session with
\* a micro-break scheduled, and everything else is as it was
C21_Witness ==
    /\ op = "update_time_config"
    /\ state = "STUDYING"
    /\ timer_active
    /\ config_replaced
    /\ study_elapsed = 30
    /\ next_micro_break_target = 60
    /\ time_config.wrapup_time = 1

\* C22: on the tick that emits sessionEnd the timer is stopped and the state
\* is still Studying when the tick completes; likewise on the tick where
\* rest_elapsed reaches rest_duration*60 the timer is stopped, restEnd is
\* emitted and the state is still Resting.
C22_TerminalTickKeepsState ==
    \A delta \in TickDelays :
        LET t == on_tick(Ctl, delta)
        IN  /\ Emits(t.emitted, "sessionEnd") =>
                   t.state = "STUDYING" /\ ~t.timer_active
            /\ Emits(t.emitted, "restEnd") =>
                   t.state = "RESTING" /\ ~t.timer_active
            /\ (state = "RESTING"
                /\ rest_elapsed + 1 = time_config.rest_duration * SecPerMin) =>
                   /\ Emits(t.emitted, "restEnd")
                   /\ t.state = "RESTING"
                   /\ ~t.timer_active
            /\ (state = "STUDYING"
                /\ study_elapsed + 1 = time_config.study_duration * SecPerMin) =>
                   /\ Emits(t.emitted, "sessionEnd")
                   /\ t.state = "STUDYING"
                   /\ ~t.timer_active

\* the tick that ended a rest has completed
C22_Witness ==
    /\ op = "tick"
    /\ Emits(emitted, "restEnd")
    /\ rest_elapsed = time_config.rest_duration * SecPerMin
    /\ state = "RESTING"
    /\ ~timer_active

\* C23: a tick that emits microBreakHint or wrapupHint does not pause the
\* countdown: unless the same tick also reaches the study total, the state
\* stays Studying, the timer stays active and the next tick increments
\* study_elapsed by exactly 1.
C23_HintsDoNotPause ==
    (/\ op = "tick"
     /\ Emits(emitted, "microBreakHint") \/ Emits(emitted, "wrapupHint")
     /\ ~Emits(emitted, "sessionEnd")) =>
        /\ state = "STUDYING"
        /\ timer_active
        /\ \A delta \in TickDelays :
               on_tick(Ctl, delta).study_elapsed = study_elapsed + 1

\* a tick short of the study total has emitted both hints
C23_Witness ==
    /\ op = "tick"
    /\ Emits(emitted, "microBreakHint")
    /\ Emits(emitted, "wrapupHint")
    /\ ~Emits(emitted, "sessionEnd")
    /\ timer_active
    /\ study_elapsed < StudyTotal

\* every microBreakHint of the last call carries the number of hints emitted
\* since the last start_study(), itself included: the arguments of the
\* successive hints of a session are 1, 2, 3, ...
HintsNumbered ==
    \A i \in DOMAIN emitted :
        emitted[i].sig = "microBreakHint" =>
            emitted[i].args = <<micro_break_hints>>

\* C24: within one study session the count arguments of successive
\* microBreakHint signals are exactly 1, 2, 3, ... with no gap or repeat, and
\* micro_break_count always equals the number of microBreakHint signals
\* emitted since the last start_study().
C24_CountEqualsHints ==
    /\ HintsNumbered
    /\ micro_break_count = micro_break_hints

\* C24 as amended: the arguments are 1, 2, 3, ...; micro_break_count equals
\* the number of hints since the last start_study() while the session is in
\* progress (Studying, or Paused from Studying), and after that it is either
\* that number or 0, to which only start_study() and update_time_config() in
\* Idle set it.
C24_CountEqualsHintsInSession ==
    /\ [](/\ HintsNumbered
          /\ (\/ state = "STUDYING"
              \/ state = "PAUSED" /\ last_active_state = "STUDYING") =>
                 micro_break_count = micro_break_hints
          /\ micro_break_count \in {0, micro_break_hints})
    /\ [][micro_break_count' < micro_break_count =>
              /\ micro_break_count' = 0
              /\ \/ op' = "start_study"
                 \/ op' = "update_time_config" /\ state = "IDLE"]_vars

\* a session with two hints was stopped and the configuration installed anew:
\* micro_break_count is 0 again
C24_Witness ==
    /\ op = "update_time_config"
    /\ state = "IDLE"
    /\ micro_break_hints = 2
    /\ micro_break_count = 0

\* the delays a well-formed configuration allows between two micro-breaks
HintGaps(cfg) ==
    (cfg.micro_break_interval_min * SecPerMin) ..
    (cfg.micro_break_interval_max * SecPerMin)

\* C25: with a fixed valid configuration (1 <= interval_min <= interval_max)
\* every microBreakHint is emitted at a study_elapsed that exceeds the
\* study_elapsed of the previous microBreakHint of the session (0 for the
\* first one) by a delay within interval_min*60 .. interval_max*60, whatever
\* pause() and resume() came in between.
C25_HintGapsWithinInterval ==
    [][(/\ op' = "tick"
        /\ Emits(emitted', "microBreakHint")
        /\ ~Malformed(time_config')
        /\ ~config_replaced') =>
            /\ last_hint_at' = study_elapsed'
            /\ study_elapsed' - last_hint_at \in HintGaps(time_config')]_vars

\* the second hint of a session that was paused, neither at the earliest nor
\* at the latest possible second
C25_Witness ==
    /\ time_config = TimeConfig(3, 3, 1, 1, 2)
    /\ op = "tick"
    /\ Emits(emitted, "microBreakHint")
    /\ micro_break_hints = 2
    /\ last_hint_at = study_elapsed
    /\ study_elapsed = 150
    /\ last_active_state = "STUDYING"

\* C26: once the micro-break target is the disabled sentinel, every call
\* other than start_study() and update_time_config() in Idle leaves it the
\* sentinel and emits no microBreakHint: no hint comes for the remainder of
\* the session, even when update_time_config() installs valid interval
\* bounds or a larger wrapup_time while the session is running.
C26_DisabledStaysDisabled ==
    [][(/\ next_micro_break_target = 0
        /\ op' # "start_study"
        /\ ~(op' = "update_time_config" /\ state = "IDLE")) =>
            /\ next_micro_break_target' = 0
            /\ ~Emits(emitted', "microBreakHint")]_vars

\* a session started with the micro-breaks disabled by malformed bounds or
\* by an early wrap-up, given the configuration that schedules a micro-break
\* at second 60 while it ran, has passed that second without a hint
C26_Witness ==
    /\ op = "tick"
    /\ state = "STUDYING"
    /\ config_replaced
    /\ time_config = TimeConfig(2, 2, 1, 1, 1)
    /\ next_micro_break_target = 0
    /\ micro_break_hints = 0
    /\ study_elapsed = 61

\* the signals a Studying tick of controller c has to emit, in order
TickSignals(c) ==
    LET elapsed == c.study_elapsed + 1
    IN  <<"studyProgress">>
        \o (IF /\ c.next_micro_break_target # 0
               /\ elapsed >= c.next_micro_break_target
            THEN <<"microBreakHint">> ELSE <<>>)
        \o (IF /\ ~c.wrapup_triggered
               /\ elapsed >= c.time_config.wrapup_time * SecPerMin
            THEN <<"wrapupHint">> ELSE <<>>)
        \o (IF elapsed >= c.time_config.study_duration * SecPerMin
            THEN <<"sessionEnd">> ELSE <<>>)

\* C27: a Studying tick emits studyProgress, then microBreakHint if due, then
\* wrapupHint if due, then sessionEnd if due, in that order and each once,
\* under the configuration in force and under any that update_time_config()
\* has just installed; the call that follows a tick emits none of these: all
\* of them were emitted by the tick itself.
C27_TickEmissionOrder ==
    /\ (state = "STUDYING" /\ timer_active) =>
           \A new_config \in ReplacementConfigs \cup {time_config} :
               \A delta \in RandomDelays(new_config) :
                   LET c == update_time_config(Ctl, new_config, delta)
                   IN  Signals(on_tick(c, delta).emitted) = TickSignals(c)
    /\ (op = "tick" /\ state = "STUDYING") =>
           /\ Signals(emitted)[1] = "studyProgress"
           /\ \A i, j \in DOMAIN emitted :
                  (/\ i < j
                   /\ emitted[i].sig \in {"wrapupHint", "sessionEnd"}) =>
                      /\ emitted[j].sig # "microBreakHint"
                      /\ emitted[j].sig = "sessionEnd"
                      /\ emitted[i].sig = "wrapupHint"
    /\ op # "tick" =>
           \A i \in DOMAIN emitted : emitted[i].sig = "stateChanged"

\* a tick on which the micro-break and the wrap-up were both due
C27_Witness ==
    /\ op = "tick"
    /\ state = "STUDYING"
    /\ Signals(emitted) = <<"studyProgress", "microBreakHint", "wrapupHint">>

RECURSIVE AfterTicks(_, _)
\* controller c after n ticks, the signals of all of them being appended to
\* c.emitted in the order of emission; the first half of the ticks is
\* evaluated (a controller is always in one of the four states) before the
\* second half is applied to its result
AfterTicks(c, n) ==
    IF n = 0 THEN c
    ELSE IF n = 1 THEN on_tick(c, 0)
    ELSE LET half == AfterTicks(c, n \div 2)
         IN  IF half.state \in TimerState
             THEN AfterTicks(half, n - n \div 2)
             ELSE half

\* C28: start_rest() called while the state is Resting and the timer active
\* sets rest_elapsed to 0, leaves the state Resting and the timer active and
\* changes nothing else, and restEnd is emitted by tick number
\* rest_duration*60 after that call and by none before it.
C28_RestartRestartsCountdown ==
    /\ (state = "RESTING" /\ timer_active) =>
           LET c == start_rest(Ctl)
               total == time_config.rest_duration * SecPerMin
           IN  /\ c = [Ctl EXCEPT
                          !.rest_elapsed = 0,
                          !.emitted = <<Sig("stateChanged", <<"RESTING">>)>>]
               /\ AfterTicks([c EXCEPT !.emitted = <<>>], total).emitted =
                      [k \in 1..total |->
                          Sig("restProgress", <<k, total>>)]
                      \o <<Sig("restEnd", <<>>)>>
    /\ op = "start_rest" =>
           /\ state = "RESTING"
           /\ rest_elapsed = 0
           /\ timer_active

\* start_rest() has just been called in a rest that had been paused and
\* resumed: the controller left Idle by the first start_rest() only
C28_Witness ==
    /\ op = "start_rest"
    /\ last_active_state = "RESTING"
    /\ state = "RESTING"
    /\ rest_elapsed = 0
    /\ timer_active

\* C29: under a fixed configuration, neither stop() nor another
\* start_study() or start_rest() being issued, if ticks are delivered fairly
\* while the timer is active (a timer that is active again and again
\* delivers ticks again and again: resume() starts the interval anew, so a
\* pause() within the second of every resume() would starve them) and every
\* pause() is followed by a resume(), then start_study() leads to a tick
\* that emits sessionEnd and start_rest() leads to a tick that emits restEnd.
C29_SessionAndRestEnd ==
    (/\ SF_vars(TickStudy)
     /\ SF_vars(TickRest)
     /\ WF_vars(ResumePaused)) =>
        /\ (op = "start_study") ~>
               (op = "tick" /\ Emits(emitted, "sessionEnd"))
        /\ (op = "start_rest") ~>
               (op = "tick" /\ Emits(emitted, "restEnd"))

\* a rest that was paused and resumed has come to its end
C29_Witness ==
    /\ op = "tick"
    /\ Emits(emitted, "restEnd")
    /\ last_active_state = "RESTING"
    /\ rest_elapsed = time_config.rest_duration * SecPerMin
    /\ study_elapsed = 0

\* C30: in the application under a fixed configuration, a session begun by
\* start_new_session() is recorded when and only when its tick emits
\* sessionEnd: the rows have distinct start times (no second row for the same
\* start_new_session()), every row has study_seconds = study_duration*60
\* whatever pauses occurred, and the session started last has its row as soon
\* as it has emitted sessionEnd.
C30_SessionRecordedOnce ==
    /\ [](/\ \A i, j \in DOMAIN sessions :
                 sessions[i].start_time = sessions[j].start_time => i = j
          /\ \A i \in DOMAIN sessions :
                 /\ sessions[i].study_seconds = StudyTotal
                 /\ sessions[i].start_time \in 1..sessions_started
          /\ (sessions_started > 0 /\ session_ends > 0) =>
                 \E i \in DOMAIN sessions :
                     sessions[i].start_time = sessions_started)
    /\ [][sessions' # sessions =>
              /\ op' = "tick"
              /\ Emits(emitted', "sessionEnd")
              /\ current_session_start # NoSession
              /\ sessions' = Append(sessions,
                                    [start_time |-> current_session_start,
                                     study_seconds |-> StudyTotal])]_vars

\* the second session of a run, paused and resumed on its way, has been
\* recorded after the first
C30_Witness ==
    /\ Len(sessions) = 2
    /\ op = "tick"
    /\ Emits(emitted, "sessionEnd")
    /\ last_active_state = "STUDYING"
    /\ sessions[2] = [start_time |-> 2, study_seconds |-> StudyTotal]
    /\ current_session_start = NoSession

\* C31: the timer is active only in an active state: in every reachable
\* state an active timer implies that the state is Studying or Resting, so
\* that no tick is ever delivered while the state is Idle or Paused.
C31_TimerActiveOnlyWhenActive ==
    /\ [](timer_active => state \in Active)
    /\ [][op' = "tick" => (timer_active /\ state \in Active)]_vars

\* a rest that was paused has been resumed in a session whose configuration
\* was replaced: the timer runs again, in Resting
C31_Witness ==
    /\ op = "resume"
    /\ timer_active
    /\ state = "RESTING"
    /\ last_active_state = "RESTING"
    /\ rest_elapsed > 0
    /\ config_replaced

\* C32: with a fixed configuration study_elapsed <= study_duration*60 and
\* rest_elapsed <= rest_duration*60 hold in every reachable state, under
\* every interleaving of ticks, pause(), resume(), stop(), start_study() and
\* start_rest(), pause() and resume() after sessionEnd or restEnd included.
C32_ElapsedBounded ==
    /\ study_elapsed <= StudyTotal
    /\ rest_elapsed <= time_config.rest_duration * SecPerMin

\* C33: with interval_min >= 1 the micro-break target is in every reachable
\* state either the disabled sentinel 0 or strictly greater than
\* study_elapsed; hence every microBreakHint is emitted by the tick that makes
\* study_elapsed equal to the target exactly, never by a later one.
C33_TargetAheadOfElapsed ==
    /\ [](time_config.micro_break_interval_min >= 1 =>
              \/ next_micro_break_target = 0
              \/ next_micro_break_target > study_elapsed)
    /\ [][Emits(emitted', "microBreakHint") =>
              /\ op' = "tick"
              /\ study_elapsed' = study_elapsed + 1
              /\ study_elapsed' = next_micro_break_target]_vars

\* the hint of a session that was paused on its way and whose configuration
\* was replaced has just been emitted, no further micro-break being scheduled
C33_Witness ==
    /\ op = "tick"
    /\ Emits(emitted, "microBreakHint")
    /\ last_active_state = "STUDYING"
    /\ config_replaced
    /\ study_elapsed = 60
    /\ next_micro_break_target = 0

\* C34: restEnd is emitted at most once between a start_rest() and the next
\* start_rest(), start_study() or stop(), under every interleaving of ticks
\* with pause() and resume().  Under a fixed configuration a rest whose
\* rest_elapsed has reached rest_duration*60 has emitted restEnd since its
\* start_rest(): no tick, pause() or resume() of that rest emits it again.
C34_RestEndAtMostOnce ==
    [][(/\ rest_elapsed >= time_config.rest_duration * SecPerMin
        /\ state \in {"RESTING", "PAUSED"}
        /\ op' \in {"tick", "pause", "resume"}) =>
            ~Emits(emitted', "restEnd")]_vars

\* the study counters of controller c: study_elapsed, micro_break_count,
\* wrapup_triggered and the micro-break target
StudyCounters(c) ==
    <<c.study_elapsed, c.micro_break_count, c.wrapup_triggered,
      c.next_micro_break_target>>

\* C35: start_rest() leaves study_elapsed, micro_break_count,
\* wrapup_triggered and the micro-break target unchanged, ticks processed in
\* Resting never change them, and only start_study() and update_time_config()
\* in Idle clear a study counter (lower study_elapsed or micro_break_count,
\* or release the wrap-up latch).
C35_RestKeepsStudyCounters ==
    /\ [](/\ StudyCounters(start_rest(Ctl)) = StudyCounters(Ctl)
          /\ state = "RESTING" =>
                 StudyCounters(on_tick(Ctl, 0)) = StudyCounters(Ctl))
    /\ [][/\ (\/ op' = "start_rest"
              \/ op' = "tick" /\ state = "RESTING") =>
                 /\ study_elapsed' = study_elapsed
                 /\ micro_break_count' = micro_break_count
                 /\ wrapup_triggered' = wrapup_triggered
                 /\ next_micro_break_target' = next_micro_break_target
          /\ (\/ study_elapsed' < study_elapsed
              \/ micro_break_count' < micro_break_count
              \/ wrapup_triggered /\ ~wrapup_triggered') =>
                 \/ op' = "start_study"
                 \/ op' = "update_time_config" /\ state = "IDLE"]_vars

\* a tick of the rest that follows a paused study session which had its
\* micro-break and its wrap-up: the study counters are those of the session
C35_Witness ==
    /\ op = "tick"
    /\ state = "RESTING"
    /\ rest_elapsed = 2
    /\ study_elapsed = 120
    /\ micro_break_count = 1
    /\ wrapup_triggered
    /\ last_active_state = "STUDYING"

\* a tick is still running its sessionEnd or restEnd slot: the dialog of
\* _on_session_end or _on_rest_end is open
InTerminalSlot ==
    \E i \in DOMAIN dialogs : dialogs[i] \in {"session_end", "rest_end"}

\* C36: in the application the command that the sessionEnd or restEnd slot
\* issues when its dialog is answered (start_rest(), start_study() or stop())
\* is the last effect of the tick: the state and timer activity it chooses
\* are those of the system when the tick completes, and outside such a slot
\* the state is never Studying or Resting with the timer stopped.
C36_HandlerCommandIsLast ==
    /\ []((state \in Active /\ ~timer_active) => InTerminalSlot)
    /\ [][/\ (TopDialog = "session_end" /\ dialogs' # dialogs) =>
                 /\ dialogs' = SubSeq(dialogs, 1, Len(dialogs) - 1)
                 /\ \/ op' = "start_rest" /\ state' = "RESTING" /\ timer_active'
                    \/ op' = "stop" /\ state' = "IDLE" /\ ~timer_active'
          /\ (TopDialog = "rest_end" /\ dialogs' # dialogs) =>
                 /\ dialogs' = SubSeq(dialogs, 1, Len(dialogs) - 1)
                 /\ \/ op' = "start_study" /\ state' = "STUDYING"
                       /\ timer_active'
                    \/ op' = "stop" /\ state' = "IDLE" /\ ~timer_active']_vars

\* the session ended while the question of "end this round" was open, and
\* the slot has started the rest: the tick is complete, in Resting with the
\* timer active
C36_Witness ==
    /\ op = "start_rest"
    /\ state = "RESTING"
    /\ timer_active
    /\ rest_elapsed = 0
    /\ dialogs = <<"confirm_stop">>
    /\ session_ends = 1

\* C37: in the application, whenever a slot of MainWindow has completed with
\* the controller Idle, current_session_start is None; and a rest begins only
\* in the sessionEnd slot: the state becomes Resting only by the start_rest()
\* of _on_session_end, called in Studying, or by the resume() of a rest that
\* was paused, never from Idle and never after a stop.
C37_IdleHasNoSession ==
    /\ [](state = "IDLE" => current_session_start = NoSession)
    /\ [][(state' = "RESTING" /\ state # "RESTING") =>
              \/ /\ op' = "start_rest"
                 /\ TopDialog = "session_end"
                 /\ state = "STUDYING"
                 /\ session_ends > 0
              \/ /\ op' = "resume"
                 /\ state = "PAUSED"
                 /\ last_active_state = "RESTING"]_vars

\* the user has confirmed the end of the round during the rest that followed
\* a recorded session: the controller is Idle and no session is in progress
C37_Witness ==
    /\ op = "stop"
    /\ state = "IDLE"
    /\ rest_elapsed > 0
    /\ Len(sessions) = 1
    /\ abandoned = {}
    /\ dialogs = <<>>
    /\ current_session_start = NoSession

\* the one stateChanged signal carrying state s
StateChanged(s) == <<Sig("stateChanged", <<s>>)>>

\* C38: stateChanged is emitted exactly once, carrying the new state, by
\* every start_study(), start_rest() and stop() (also when the state keeps
\* its value, as in stop() in Idle) and by every effective pause() and
\* resume(); a tick and a pause() or resume() that does nothing emit none.
C38_StateChangedOncePerCall ==
    /\ \A delta \in RandomDelays(time_config) :
           /\ Signals(start_study(Ctl, delta).emitted) = <<"stateChanged">>
           /\ start_study(Ctl, delta).emitted = StateChanged("STUDYING")
           /\ ~Emits(on_tick(Ctl, delta).emitted, "stateChanged")
    /\ start_rest(Ctl).emitted = StateChanged("RESTING")
    /\ stop(Ctl).emitted = StateChanged("IDLE")
    /\ pause(Ctl).emitted =
           IF state \in Active THEN StateChanged("PAUSED") ELSE <<>>
    /\ resume(Ctl).emitted =
           IF state = "PAUSED" THEN StateChanged(last_active_state) ELSE <<>>
    /\ state \notin Active => pause(Ctl) = Ctl
    /\ state # "PAUSED" => resume(Ctl) = Ctl
    /\ op \in {"start_study", "start_rest", "stop"} =>
           emitted = StateChanged(state)
    /\ op \in {"pause", "resume"} => emitted \in {<<>>, StateChanged(state)}
    /\ op \in {"tick", "update_time_config", "init"} =>
           ~Emits(emitted, "stateChanged")

\* stop() has just been called on a controller that had been paused in a
\* rest, and has emitted stateChanged(IDLE) once
C38_Witness ==
    /\ op = "stop"
    /\ state = "IDLE"
    /\ emitted = StateChanged("IDLE")
    /\ last_active_state = "RESTING"
    /\ ~timer_active

====
